---- MODULE Spec2Model ----
(***************************************************************************)
(* Model of the invoice reader / order reconciliation utility:             *)
(*   src/src/main.py           text normalizer, row scanner, translator    *)
(*   src/src/order_compare.py  reconciliation engine                       *)
(*   src/src/order_extract_kod.py  key derivation                          *)
(*   src/src/webapp.py         POST /compare handler                       *)
(*                                                                         *)
(* Strings are sequences of characters.  An ASCII character is the         *)
(* one-character string itself; a non-ASCII character is written by its    *)
(* code point, "U+251C".                                                   *)
(***************************************************************************)
EXTENDS Integers, Sequences, FiniteSets, TLC

VARIABLES
    nt_pc, nt_value, nt_once, nt_twice,          \* normalize_text runs
    lu_pc, lu_value, lu_once, lu_twice, lu_trim, \* left_until_underscore runs
    tr_pc, tr_rows, tr_table, tr_translated,     \* apply_translations run
    ps_pc, ps_lines, ps_i, ps_in_table, ps_rows, \* parse_rows run
    ps_index,   \* history: 0-based position of the index line of each row of ps_rows
    \* one reconciliation run (webapp.compare; order_compare.main runs the
    \* same two passes)
    pc, invoice_file, order_file, order_rows, invoice_rows, response,
    invoice_index, order_output_rows, order_row_matches,
    order_index, invoice_output_rows, invoice_row_matches, report,
    order_pairs,    \* history: per processed order row, the position of the
                    \* invoice row popped for it (0: none)
    invoice_pairs,  \* history: per processed invoice row, the position in
                    \* order_rows of the order row popped for it (0: none)
    calls           \* history: the passes called so far, in call order

normVars == <<nt_pc, nt_value, nt_once, nt_twice>>
keyVars  == <<lu_pc, lu_value, lu_once, lu_twice, lu_trim>>
transVars == <<tr_pc, tr_rows, tr_table, tr_translated>>
parseVars == <<ps_pc, ps_lines, ps_i, ps_in_table, ps_rows, ps_index>>
runVars == <<pc, invoice_file, order_file, order_rows, invoice_rows, response,
             invoice_index, order_output_rows, order_row_matches,
             order_index, invoice_output_rows, invoice_row_matches, report,
             order_pairs, invoice_pairs, calls>>
vars == <<normVars, keyVars, transVars, parseVars, runVars>>

\* None: a value no string equals (every character of a string is one
\* character or a code point)
None_ == <<"<None>">>

(***************************************************************************)
(* Characters                                                              *)
(***************************************************************************)
NBSP == "U+00A0"
\* str.isspace() characters of the modelled alphabet
Whitespace == {" ", NBSP}

(***************************************************************************)
(* Python str primitives                                                   *)
(***************************************************************************)
\* str.replace(old, new): non-overlapping occurrences, left to right
RECURSIVE Replace(_, _, _)
Replace(s, old, new) ==
    IF Len(s) < Len(old) THEN s
    ELSE IF SubSeq(s, 1, Len(old)) = old
         THEN new \o Replace(SubSeq(s, Len(old) + 1, Len(s)), old, new)
         ELSE <<s[1]>> \o Replace(Tail(s), old, new)

RECURSIVE LStrip(_)
LStrip(s) == IF s # <<>> /\ s[1] \in Whitespace THEN LStrip(Tail(s)) ELSE s

RECURSIVE RStrip(_)
RStrip(s) ==
    IF s # <<>> /\ s[Len(s)] \in Whitespace
    THEN RStrip(SubSeq(s, 1, Len(s) - 1)) ELSE s

\* str.strip()
Strip(s) == RStrip(LStrip(s))

\* str.find(ch, start): 0-based index of the first ch at index >= start, -1 if none
RECURSIVE FindFrom(_, _, _)
FindFrom(s, ch, start) ==
    IF start >= Len(s) THEN -1
    ELSE IF s[start + 1] = ch THEN start
    ELSE FindFrom(s, ch, start + 1)

\* str.split(): the maximal runs of non-whitespace characters
RECURSIVE SplitWs(_, _)
SplitWs(s, cur) ==
    IF s = <<>> THEN (IF cur = <<>> THEN <<>> ELSE <<cur>>)
    ELSE IF s[1] \in Whitespace
         THEN (IF cur = <<>> THEN <<>> ELSE <<cur>>) \o SplitWs(Tail(s), <<>>)
         ELSE SplitWs(Tail(s), Append(cur, s[1]))

\* sep.join(parts)
RECURSIVE Join(_, _)
Join(sep, parts) ==
    IF parts = <<>> THEN <<>>
    ELSE IF Len(parts) = 1 THEN parts[1]
    ELSE parts[1] \o sep \o Join(sep, Tail(parts))

\* str.split(sep) for a one-character separator
RECURSIVE SplitOn(_, _, _)
SplitOn(s, sep, cur) ==
    IF s = <<>> THEN <<cur>>
    ELSE IF s[1] = sep THEN <<cur>> \o SplitOn(Tail(s), sep, <<>>)
    ELSE SplitOn(Tail(s), sep, Append(cur, s[1]))

\* filter(None, parts): drop the empty strings
RECURSIVE FilterNonEmpty(_)
FilterNonEmpty(parts) ==
    IF parts = <<>> THEN <<>>
    ELSE IF parts[1] = <<>> THEN FilterNonEmpty(Tail(parts))
    ELSE <<parts[1]>> \o FilterNonEmpty(Tail(parts))

\* all strings over alphabet of length at most n
StringsUpTo(alphabet, n) == UNION {[1..k -> alphabet] : k \in 0..n}

(***************************************************************************)
(* main.py: text normalizer                                                *)
(***************************************************************************)
\* MOJIBAKE_FIXES, in dict order: <<bad[0], bad[1], good>>
MOJIBAKE_FIXES == <<
    <<"U+251C", "U+00ED", "U+00E1">>,   \* a-acute
    <<"U+251C", "U+0119", "U+00E9">>,   \* e-acute
    <<"U+251C", "U+015F", "U+00ED">>,   \* i-acute
    <<"U+251C", "U+2502", "U+00F3">>,   \* o-acute
    <<"U+251C", "U+00C2", "U+00F6">>,   \* o-diaeresis
    <<"U+253C", "U+0139", "U+0151">>,   \* o-double-acute
    <<"U+251C", "U+2551", "U+00FA">>,   \* u-acute
    <<"U+251C", "U+255D", "U+00FC">>,   \* u-diaeresis
    <<"U+253C", "U+2593", "U+0171">>,   \* u-double-acute
    <<"U+251C", "U+00FC", "U+00C1">>,   \* A-acute
    <<"U+251C", "U+00EB", "U+00C9">>,   \* E-acute
    <<"U+251C", "U+0179", "U+00CD">>,   \* I-acute
    <<"U+251C", "U+00F4", "U+00D3">>,   \* O-acute
    <<"U+251C", "U+013E", "U+00D6">>,   \* O-diaeresis
    <<"U+253C", "U+00C9", "U+0150">>,   \* O-double-acute
    <<"U+251C", "U+00DC", "U+00DA">>,   \* U-acute
    <<"U+251C", "U+0165", "U+00DC">>,   \* U-diaeresis
    <<"U+253C", "U+2591", "U+0170">>    \* U-double-acute
>>

RECURSIVE FixFrom(_, _)
FixFrom(fixed, k) ==
    IF k > Len(MOJIBAKE_FIXES) THEN fixed
    ELSE FixFrom(Replace(fixed,
                         <<MOJIBAKE_FIXES[k][1], MOJIBAKE_FIXES[k][2]>>,
                         <<MOJIBAKE_FIXES[k][3]>>),
                 k + 1)

fix_mojibake(value) == FixFrom(value, 1)

Magasfenyu(uchar, rest) ==
    <<"M","a","g","a","s","f","U+00E9","n","y",uchar," ">> \o rest
Matt(rest) == <<"M","a","t","t"," ">> \o rest
antracit == <<"a","n","t","r","a","c","i","t">>
krem     == <<"k","r","U+00E9","m">>
latte    == <<"l","a","t","t","e">>
feher    == <<"f","e","h","U+00E9","r">>
ANTRAZITE == <<"A","N","T","R","A","Z","I","T","E">>

\* TEXT_FIXES: <<key, value>>
TEXT_FIXES == {
    <<Magasfenyu("U+00FB", antracit), Magasfenyu("U+0171", antracit)>>,
    <<Magasfenyu("U+00FB", krem),     Magasfenyu("U+0171", krem)>>,
    <<Magasfenyu("U+00FB", latte),    Magasfenyu("U+0171", latte)>>,
    <<Magasfenyu("U+00FB", feher),    Magasfenyu("U+0171", feher)>>,
    <<Matt(ANTRAZITE),                Matt(antracit)>>
}

\* TEXT_FIXES.get(fixed, fixed)
TextFixesGet(fixed) ==
    IF \E e \in TEXT_FIXES : e[1] = fixed
    THEN (CHOOSE e \in TEXT_FIXES : e[1] = fixed)[2]
    ELSE fixed

normalize_text(value) ==
    LET f1 == fix_mojibake(value)
        f2 == Strip(Replace(Replace(f1, <<NBSP>>, <<" ">>), <<" ", " ">>, <<" ">>))
        f3 == Replace(Replace(f2, <<"U+00FB">>, <<"U+0171">>), <<"U+00C2">>, <<>>)
        f4 == Join(<<" ">>, SplitWs(f3, <<>>))
    IN  TextFixesGet(f4)

\* ---- bounded inputs of the normalizer runs ----
MaxTextLen == 3
TextAlphabet ==
    {"a", " ", NBSP, "U+00FB", "U+00C2", "U+251C", "U+253C", "U+0165",
     "U+00DC", "U+0139"}
TextSamples ==
    {e[1] : e \in TEXT_FIXES} \cup {e[2] : e \in TEXT_FIXES}
    \cup {<<" ">> \o e[1] \o <<NBSP>> : e \in TEXT_FIXES}
TextInputs == StringsUpTo(TextAlphabet, MaxTextLen) \cup TextSamples

NormInit ==
    /\ nt_pc = "start"
    /\ nt_value \in TextInputs
    /\ nt_once = <<>>
    /\ nt_twice = <<>>
    /\ lu_pc = "idle" /\ lu_value = <<>> /\ lu_once = <<>>
    /\ lu_twice = <<>> /\ lu_trim = <<>>
    /\ tr_pc = "idle" /\ tr_rows = <<>> /\ tr_table = <<>> /\ tr_translated = <<>>
    /\ ps_pc = "idle" /\ ps_lines = <<>> /\ ps_i = 0 /\ ps_in_table = FALSE
    /\ ps_rows = <<>> /\ ps_index = <<>>
    /\ pc = "idle" /\ invoice_file = FALSE /\ order_file = FALSE
    /\ order_rows = <<>> /\ invoice_rows = <<>> /\ response = "none"
    /\ invoice_index = <<>> /\ order_output_rows = <<>> /\ order_row_matches = <<>>
    /\ order_index = <<>> /\ invoice_output_rows = <<>> /\ invoice_row_matches = <<>>
    /\ order_pairs = <<>> /\ invoice_pairs = <<>> /\ report = <<>> /\ calls = <<>>

\* first call: normalize_text(x)
NormalizeOnce ==
    /\ nt_pc = "start"
    /\ nt_once' = normalize_text(nt_value)
    /\ nt_pc' = "once"
    /\ UNCHANGED <<nt_value, nt_twice, keyVars, transVars, parseVars, runVars>>

\* second call: normalize_text(normalize_text(x))
NormalizeTwice ==
    /\ nt_pc = "once"
    /\ nt_twice' = normalize_text(nt_once)
    /\ nt_pc' = "twice"
    /\ UNCHANGED <<nt_value, nt_once, keyVars, transVars, parseVars, runVars>>

(***************************************************************************)
(* order_compare.py / order_extract_kod.py: key derivation                 *)
(***************************************************************************)
\* order_compare.normalize_text: "" for None, else str(value).strip()
oc_normalize_text(value) == IF value = None_ THEN <<>> ELSE Strip(value)

\* start index handed to str.find: the 16th character
UnderscoreFrom == 15

left_until_underscore(value) ==
    LET text == oc_normalize_text(value)
        idx  == FindFrom(text, "_", UnderscoreFrom)
    IN  IF text = <<>> THEN <<>>
        ELSE IF idx = -1 THEN text
        ELSE SubSeq(text, 1, idx)

\* ---- bounded inputs of the key runs ----
RECURSIVE Repeat(_, _)
Repeat(ch, n) == IF n = 0 THEN <<>> ELSE <<ch>> \o Repeat(ch, n - 1)

MaxTailLen == 4
KeyAlphabet == {"a", "_", " "}
\* short values, and values whose tail straddles the 16th character
KeyInputs ==
    {None_}
    \cup StringsUpTo(KeyAlphabet, MaxTailLen)
    \cup {Repeat("a", UnderscoreFrom - 2) \o t : t \in StringsUpTo(KeyAlphabet, MaxTailLen)}
    \cup {<<" ">> \o Repeat("a", UnderscoreFrom - 1) \o t : t \in StringsUpTo(KeyAlphabet, MaxTailLen)}

KeyInit ==
    /\ lu_pc = "start"
    /\ lu_value \in KeyInputs
    /\ lu_once = <<>>
    /\ lu_twice = <<>>
    /\ lu_trim = <<>>
    /\ nt_pc = "idle" /\ nt_value = <<>> /\ nt_once = <<>> /\ nt_twice = <<>>
    /\ tr_pc = "idle" /\ tr_rows = <<>> /\ tr_table = <<>> /\ tr_translated = <<>>
    /\ ps_pc = "idle" /\ ps_lines = <<>> /\ ps_i = 0 /\ ps_in_table = FALSE
    /\ ps_rows = <<>> /\ ps_index = <<>>
    /\ pc = "idle" /\ invoice_file = FALSE /\ order_file = FALSE
    /\ order_rows = <<>> /\ invoice_rows = <<>> /\ response = "none"
    /\ invoice_index = <<>> /\ order_output_rows = <<>> /\ order_row_matches = <<>>
    /\ order_index = <<>> /\ invoice_output_rows = <<>> /\ invoice_row_matches = <<>>
    /\ order_pairs = <<>> /\ invoice_pairs = <<>> /\ report = <<>> /\ calls = <<>>

\* order-side key of the value, and the invoice-side key (trimmed kod) of it
DeriveKey ==
    /\ lu_pc = "start"
    /\ lu_once' = left_until_underscore(lu_value)
    /\ lu_trim' = oc_normalize_text(lu_value)
    /\ lu_pc' = "once"
    /\ UNCHANGED <<lu_value, lu_twice, normVars, transVars, parseVars, runVars>>

\* the key derivation applied to the derived key
DeriveKeyAgain ==
    /\ lu_pc = "once"
    /\ lu_twice' = left_until_underscore(lu_once)
    /\ lu_pc' = "twice"
    /\ UNCHANGED <<lu_value, lu_once, lu_trim, normVars, transVars, parseVars, runVars>>

(***************************************************************************)
(* main.py: row scanner                                                    *)
(***************************************************************************)
Digits == {"0", "1", "2", "3", "4", "5", "6", "7", "8", "9"}

\* the heading "Netto ar" (o-acute, a-acute) that opens the table
NettoAr == <<"N","e","t","t","U+00F3"," ","U+00E1","r">>
\* the prefix "Osszesitve" (O-diaeresis, i-acute) that closes the table
Osszesitve == <<"U+00D6","s","s","z","e","s","U+00ED","t","v","e">>
\* the prefix "Negyzetmeterar" (e-acute, e-acute, a-acute) of the line skipped
\* after a record
Negyzetmeterar ==
    <<"N","U+00E9","g","y","z","e","t","m","U+00E9","t","e","r","U+00E1","r">>

\* str.startswith(prefix)
StartsWith(s, prefix) ==
    Len(s) >= Len(prefix) /\ SubSeq(s, 1, Len(prefix)) = prefix

\* str.isdigit(), on the modelled alphabet
IsDigit(s) == s # <<>> /\ \A k \in 1..Len(s) : s[k] \in Digits

\* ch in s
Contains(s, ch) == \E k \in 1..Len(s) : s[k] = ch

\* main.normalize_numeric: non-breaking spaces and spaces removed, "," -> "."
\* the three replacements in turn, each intermediate string bound once
normalize_numeric(value) ==
    CHOOSE text \in
        {Replace(no_space, <<",">>, <<".">>) :
            no_space \in {Replace(no_nbsp, <<" ">>, <<>>) :
                no_nbsp \in {Replace(value, <<NBSP>>, <<" ">>)}}} : TRUE

\* float(text) succeeds.  Exact on the alphabet of digits, ".", ",", "+", "-",
\* spaces and the letters "p" and "x": an optional sign, then digits with at
\* most one "." and at least one digit.
IsFloat(text) ==
    LET body == IF text # <<>> /\ text[1] \in {"+", "-"} THEN Tail(text) ELSE text
    IN  /\ \A k \in 1..Len(body) : body[k] \in Digits \cup {"."}
        /\ Cardinality({k \in 1..Len(body) : body[k] = "."}) <= 1
        /\ \E k \in 1..Len(body) : body[k] \in Digits

is_numeric(value) == \E text \in {normalize_numeric(value)} : IsFloat(text)

\* the candidate record whose index line is lines[i] (0-based i)
Candidate(lines, i) ==
    [termek    |-> lines[i + 2],
     szin      |-> lines[i + 3],
     meret     |-> lines[i + 4],
     m2        |-> lines[i + 5],
     db        |-> lines[i + 6],
     ossz_m2   |-> lines[i + 7],
     egyseg_ar |-> lines[i + 8],
     netto_ar  |-> lines[i + 9]]

NumericFields == {"m2", "db", "ossz_m2", "egyseg_ar", "netto_ar"}

\* mutant of RecordValid: any() in place of all()
RecordValid_Any(c) ==
    Contains(c.meret, "x") /\ \E f \in NumericFields : is_numeric(c[f])

\* "x" in meret and all(is_numeric(value) for value in numeric_values)
RecordValid(c) ==
    Contains(c.meret, "x") /\ \A f \in NumericFields : is_numeric(c[f])

\* the dict appended to rows
ParsedRow(c) ==
    [termek    |-> c.termek,
     szin      |-> c.szin,
     meret     |-> c.meret,
     m2        |-> normalize_numeric(c.m2),
     db        |-> normalize_numeric(c.db),
     ossz_m2   |-> normalize_numeric(c.ossz_m2),
     egyseg_ar |-> normalize_numeric(c.egyseg_ar),
     netto_ar  |-> normalize_numeric(c.netto_ar)]

\* mutant of InTableAt: the summary line does not close the table
InTableAt_NoClose(line, in_table) == in_table

\* in_table after the "Osszesitve" test of the current line
InTableAt(line, in_table) ==
    IF StartsWith(line, Osszesitve) THEN FALSE ELSE in_table

\* the current line opens a record that is accepted
AcceptsAt(lines, i, in_table) ==
    /\ InTableAt(lines[i + 1], in_table)
    /\ IsDigit(lines[i + 1])
    /\ i + 8 < Len(lines)
    /\ RecordValid(Candidate(lines, i))

\* ---- bounded inputs of the scanner runs ----
MaxPrefix == 2
SummaryLine == Osszesitve \o <<":">>
PerM2Line == Negyzetmeterar \o <<":">>
GoodNumerics == << <<"1",",","2","5">>, <<"2">>, <<"2",NBSP,"5","0","0">>,
                  <<"1"," ","0">>, <<"-","4",",">> >>
BadNumeric == <<"1",",","5",",">>
\* the five numeric lines, the bad-th of them malformed (none when bad = 0)
Numerics(bad) == [k \in 1..5 |-> IF k = bad THEN BadNumeric ELSE GoodNumerics[k]]
Block(index, termek, meret, bad) ==
    <<index, termek, <<"c">>, meret>> \o Numerics(bad)
FirstBlocks ==
    {Block(ix, t, m, b) : ix \in {<<"1">>, <<"p">>}, t \in {<<"p">>, SummaryLine},
                          m \in {<<"8","x","4">>, <<"8","4">>}, b \in {0, 1, 5}}
SecondBlocks ==
    {<<>>} \cup
    {Block(<<"2">>, <<"p">>, m, b) : m \in {<<"8","x","4">>, <<"8","4">>}, b \in {0, 3}}
Prefixes == StringsUpTo({NettoAr, SummaryLine, <<"p">>}, MaxPrefix)
Middles == {<<>>, <<PerM2Line>>, <<SummaryLine>>, <<NettoAr>>}
\* lines: the stripped non-empty lines of the text
LinesInputs ==
    {p \o b1 \o m \o b2 : p \in Prefixes, b1 \in FirstBlocks, m \in Middles,
                          b2 \in SecondBlocks}

ParseInit ==
    /\ ps_pc = "scan"
    /\ ps_lines \in LinesInputs
    /\ ps_i = 0
    /\ ps_in_table = FALSE
    /\ ps_rows = <<>>
    /\ ps_index = <<>>
    /\ nt_pc = "idle" /\ nt_value = <<>> /\ nt_once = <<>> /\ nt_twice = <<>>
    /\ lu_pc = "idle" /\ lu_value = <<>> /\ lu_once = <<>>
    /\ lu_twice = <<>> /\ lu_trim = <<>>
    /\ tr_pc = "idle" /\ tr_rows = <<>> /\ tr_table = <<>> /\ tr_translated = <<>>
    /\ pc = "idle" /\ invoice_file = FALSE /\ order_file = FALSE
    /\ order_rows = <<>> /\ invoice_rows = <<>> /\ response = "none"
    /\ invoice_index = <<>> /\ order_output_rows = <<>> /\ order_row_matches = <<>>
    /\ order_index = <<>> /\ invoice_output_rows = <<>> /\ invoice_row_matches = <<>>
    /\ order_pairs = <<>> /\ invoice_pairs = <<>> /\ report = <<>> /\ calls = <<>>

\* loop iteration at the heading: in_table = True; i += 1; continue
ScanHeading ==
    /\ ps_pc = "scan"
    /\ ps_i < Len(ps_lines)
    /\ ps_lines[ps_i + 1] = NettoAr
    /\ ps_in_table' = TRUE
    /\ ps_i' = ps_i + 1
    /\ UNCHANGED <<ps_pc, ps_lines, ps_rows, ps_index, normVars, keyVars, transVars, runVars>>

\* before parse_rows is called: no text has been split yet
ParseCallInit ==
    /\ ps_pc = "call"
    /\ ps_lines = <<>>
    /\ ps_i = 0
    /\ ps_in_table = FALSE
    /\ ps_rows = <<>>
    /\ ps_index = <<>>
    /\ nt_pc = "idle" /\ nt_value = <<>> /\ nt_once = <<>> /\ nt_twice = <<>>
    /\ lu_pc = "idle" /\ lu_value = <<>> /\ lu_once = <<>>
    /\ lu_twice = <<>> /\ lu_trim = <<>>
    /\ tr_pc = "idle" /\ tr_rows = <<>> /\ tr_table = <<>> /\ tr_translated = <<>>
    /\ pc = "idle" /\ invoice_file = FALSE /\ order_file = FALSE
    /\ order_rows = <<>> /\ invoice_rows = <<>> /\ response = "none"
    /\ invoice_index = <<>> /\ order_output_rows = <<>> /\ order_row_matches = <<>>
    /\ order_index = <<>> /\ invoice_output_rows = <<>> /\ invoice_row_matches = <<>>
    /\ report = <<>> /\ order_pairs = <<>> /\ invoice_pairs = <<>> /\ calls = <<>>

\* entry of parse_rows: the text is split into its stripped non-empty lines
\* and the cursor, the table flag and the row list are initialised
ParseRowsCall ==
    /\ ps_pc = "call"
    /\ ps_lines' \in LinesInputs
    /\ ps_i' = 0
    /\ ps_in_table' = FALSE
    /\ ps_rows' = <<>>
    /\ ps_index' = <<>>
    /\ ps_pc' = "scan"
    /\ UNCHANGED <<normVars, keyVars, transVars, runVars>>

\* mutant of CursorAfterRecord: the cursor moves on by one line only
CursorAfterRecord_OneLine(lines, i) == i + 1

\* the cursor after the record at i: i += 9, and one more when the next line
\* starts with "Negyzetmeterar"
CursorAfterRecord(lines, i) ==
    IF i + 9 < Len(lines) /\ StartsWith(lines[i + 10], Negyzetmeterar)
    THEN i + 10 ELSE i + 9

\* loop iteration that accepts the record at the cursor
ScanAccept ==
    /\ ps_pc = "scan"
    /\ ps_i < Len(ps_lines)
    /\ ps_lines[ps_i + 1] # NettoAr
    /\ AcceptsAt(ps_lines, ps_i, ps_in_table)
    /\ ps_in_table' = InTableAt(ps_lines[ps_i + 1], ps_in_table)
    /\ ps_rows' = Append(ps_rows, ParsedRow(Candidate(ps_lines, ps_i)))
    /\ ps_index' = Append(ps_index, ps_i)
    /\ ps_i' = CursorAfterRecord(ps_lines, ps_i)
    /\ UNCHANGED <<ps_pc, ps_lines, normVars, keyVars, transVars, runVars>>

\* any other loop iteration: i += 1
ScanSkip ==
    /\ ps_pc = "scan"
    /\ ps_i < Len(ps_lines)
    /\ ps_lines[ps_i + 1] # NettoAr
    /\ ~AcceptsAt(ps_lines, ps_i, ps_in_table)
    /\ ps_in_table' = InTableAt(ps_lines[ps_i + 1], ps_in_table)
    /\ ps_i' = ps_i + 1
    /\ UNCHANGED <<ps_pc, ps_lines, ps_rows, ps_index, normVars, keyVars, transVars, runVars>>

\* the loop ends: return rows
ScanReturn ==
    /\ ps_pc = "scan"
    /\ ps_i >= Len(ps_lines)
    /\ ps_pc' = "returned"
    /\ UNCHANGED <<ps_lines, ps_i, ps_in_table, ps_rows, ps_index,
                   normVars, keyVars, transVars, runVars>>

(***************************************************************************)
(* main.py: code translator                                                *)
(***************************************************************************)
NFAH == <<"N","F","A","H">>
NFAY == <<"N","F","A","Y">>
\* the size literal of the special rule, "718x250"
SpecialSize == <<"7","1","8","x","2","5","0">>

\* dict.get(key, default) on a table entry; an absent key or entry is None_
MetaGet(metas, key, field, default) ==
    IF key \in DOMAIN metas /\ metas[key][field] # None_
    THEN metas[key][field] ELSE default

\* mutant of LastSegment: the first segment, split("_")[0]
LastSegment_First(code) == SplitOn(code, "_", <<>>)[1]

\* product_code.split("_")[-1]
LastSegment(code) ==
    LET parts == SplitOn(code, "_", <<>>) IN parts[Len(parts)]

\* the body of the loop of apply_translations for one row
TranslateRow(row, table) ==
    LET termek == normalize_text(row.termek)
        szin   == normalize_text(row.szin)
        meret  == Replace(row.meret, <<" ">>, <<>>)
        product_code == MetaGet(table.products, termek, "code", termek)
        color_code   == MetaGet(table.colors, szin, "code", szin)
        model_code   == LastSegment(product_code)
        is_standard_size == meret \in table.standard_sizes
        kod == IF meret = SpecialSize
               THEN Join(<<"_">>, FilterNonEmpty(<<NFAH, model_code, color_code, meret>>))
               ELSE IF is_standard_size
               THEN Join(<<"_">>, FilterNonEmpty(<<product_code, color_code, meret>>))
               ELSE Join(<<"_">>, FilterNonEmpty(<<NFAY, model_code, color_code, meret>>))
    IN  [termek |-> MetaGet(table.products, termek, "name", termek),
         szin   |-> MetaGet(table.colors, szin, "name", szin),
         meret  |-> meret,
         kod    |-> kod]

\* ---- bounded inputs of the translator runs ----
MaxTransRows == 1
Size8x4 == <<"8","x","4">>
Size9x9 == <<"9","x","9">>
TermekInputs == {<<"F">>, <<"F", NBSP>>, <<"G","_","H">>, <<"U+00C2">>}
SzinInputs   == {<<"c">>, <<"d">>}
MeretInputs  == {SpecialSize, <<"7","1","8"," ","x"," ","2","5","0">>, Size8x4, Size9x9}
TransRowInputs ==
    [termek : TermekInputs, szin : SzinInputs, meret : MeretInputs]
CodeX1 == <<"P","_","Q","_","X","1">>
\* table["products"]: no entry, an entry with name and code, an entry without code
ProductTables ==
    { <<>>,
      [k \in {<<"F">>} |-> [name |-> <<"F","r","o","n","t">>, code |-> CodeX1]],
      [k \in {<<"F">>} |-> [name |-> <<"F","r","o","n","t">>, code |-> None_]],
      [k \in {<<"F">>, <<"G","_","H">>} |-> [name |-> None_, code |-> <<>>]] }
ColorTables ==
    { <<>>,
      [k \in {<<"c">>} |-> [name |-> <<"C","r","e","m","e">>, code |-> <<"C","2">>]],
      [k \in {<<"d">>} |-> [name |-> None_, code |-> <<>>]] }
TableInputs ==
    [products : ProductTables, colors : ColorTables,
     standard_sizes : SUBSET {SpecialSize, Size8x4}]

TransInit ==
    /\ tr_pc = "loop"
    /\ tr_rows \in UNION {[1..n -> TransRowInputs] : n \in 0..MaxTransRows}
    /\ tr_table \in TableInputs
    /\ tr_translated = <<>>
    /\ nt_pc = "idle" /\ nt_value = <<>> /\ nt_once = <<>> /\ nt_twice = <<>>
    /\ lu_pc = "idle" /\ lu_value = <<>> /\ lu_once = <<>>
    /\ lu_twice = <<>> /\ lu_trim = <<>>
    /\ ps_pc = "idle" /\ ps_lines = <<>> /\ ps_i = 0 /\ ps_in_table = FALSE
    /\ ps_rows = <<>> /\ ps_index = <<>>
    /\ pc = "idle" /\ invoice_file = FALSE /\ order_file = FALSE
    /\ order_rows = <<>> /\ invoice_rows = <<>> /\ response = "none"
    /\ invoice_index = <<>> /\ order_output_rows = <<>> /\ order_row_matches = <<>>
    /\ order_index = <<>> /\ invoice_output_rows = <<>> /\ invoice_row_matches = <<>>
    /\ order_pairs = <<>> /\ invoice_pairs = <<>> /\ report = <<>> /\ calls = <<>>

\* one iteration of "for row in rows": translated.append({...})
ApplyTranslationsRow ==
    /\ tr_pc = "loop"
    /\ Len(tr_translated) < Len(tr_rows)
    /\ tr_translated' =
           Append(tr_translated, TranslateRow(tr_rows[Len(tr_translated) + 1], tr_table))
    /\ UNCHANGED <<tr_pc, tr_rows, tr_table, normVars, keyVars, parseVars, runVars>>

\* "return translated"
ApplyTranslationsReturn ==
    /\ tr_pc = "loop"
    /\ Len(tr_translated) = Len(tr_rows)
    /\ tr_pc' = "returned"
    /\ UNCHANGED <<tr_rows, tr_table, tr_translated, normVars, keyVars, parseVars, runVars>>

(***************************************************************************)
(* order_compare.py: numeric comparison                                    *)
(***************************************************************************)
RECURSIVE Pow10(_)
Pow10(n) == IF n = 0 THEN 1 ELSE 10 * Pow10(n - 1)

DigitValue(d) == CHOOSE v \in 0..9 : <<"0","1","2","3","4","5","6","7","8","9">>[v + 1] = d

\* the value of the digits of s, read left to right, its "." skipped
RECURSIVE Coefficient(_, _)
Coefficient(s, acc) ==
    IF s = <<>> THEN acc
    ELSE IF s[1] = "." THEN Coefficient(Tail(s), acc)
    ELSE Coefficient(Tail(s), 10 * acc + DigitValue(s[1]))

DecNone == [kind |-> "None"]

\* Decimal(text), None on InvalidOperation.  Exact on the alphabet of digits,
\* ".", "+", "-" and the letters "s", "N", "a", "x": a number is an optional
\* sign, then digits with at most one "." and at least one digit; "NaN" and
\* "sNaN" (optional sign, optional trailing digits) are the quiet and the
\* signaling not-a-number.
ParseDecimal(text) ==
    LET signed == text # <<>> /\ text[1] \in {"+", "-"}
        body   == IF signed THEN Tail(text) ELSE text
        dots   == {k \in 1..Len(body) : body[k] = "."}
        IsNaNForm(word) ==
            /\ StartsWith(body, word)
            /\ \A k \in (Len(word) + 1)..Len(body) : body[k] \in Digits
    IN  IF IsNaNForm(<<"N","a","N">>) THEN [kind |-> "NaN"]
        ELSE IF IsNaNForm(<<"s","N","a","N">>) THEN [kind |-> "sNaN"]
        ELSE IF /\ \A k \in 1..Len(body) : body[k] \in Digits \cup {"."}
                /\ Cardinality(dots) <= 1
                /\ \E k \in 1..Len(body) : body[k] \in Digits
        THEN [kind  |-> "num",
              neg   |-> signed /\ text[1] = "-",
              coef  |-> Coefficient(body, 0),
              scale |-> IF dots = {} THEN 0
                        ELSE Len(body) - (CHOOSE k \in dots : TRUE)]
        ELSE DecNone

\* order_compare.normalize_numeric
oc_normalize_numeric(value) ==
    IF value = None_ THEN DecNone
    ELSE LET text == Strip(Replace(Replace(Replace(value, <<NBSP>>, <<" ">>),
                                           <<" ">>, <<>>), <<",">>, <<".">>))
         IN  IF text = <<>> THEN DecNone ELSE ParseDecimal(text)

\* Decimal.__eq__ raises InvalidOperation: an operand is a signaling NaN
DecimalEqRaises(a, b) == a.kind = "sNaN" \/ b.kind = "sNaN"

\* Decimal.__eq__ of two Decimals, neither a signaling NaN
DecimalEq(a, b) ==
    /\ a.kind = "num" /\ b.kind = "num"
    /\ a.coef * Pow10(b.scale) = b.coef * Pow10(a.scale)
    /\ (a.coef = 0 \/ a.neg = b.neg)

\* numbers_equal raises instead of returning
numbers_equal_raises(left, right) ==
    LET left_num  == oc_normalize_numeric(left)
        right_num == oc_normalize_numeric(right)
    IN  /\ left_num # DecNone /\ right_num # DecNone
        /\ DecimalEqRaises(left_num, right_num)

\* the value numbers_equal returns
numbers_equal(left, right) ==
    LET left_num  == oc_normalize_numeric(left)
        right_num == oc_normalize_numeric(right)
    IN  IF left_num = DecNone /\ right_num = DecNone THEN TRUE
        ELSE IF left_num = DecNone \/ right_num = DecNone THEN FALSE
        ELSE DecimalEq(left_num, right_num)

(***************************************************************************)
(* order_compare.py: reconciliation engine                                 *)
(***************************************************************************)
\* get_column(row, index), index 1-based
get_column(row, index) ==
    IF index - 1 < 0 \/ index - 1 >= Len(row) THEN None_ ELSE row[index]

\* the columns of an order row the engine reads
CodeColumn == 4
QtyColumn  == 6
UnitColumn == 9
NetColumn  == 10

\* index[code].append(v) on a defaultdict(deque)
IndexAppend(index, code, v) ==
    [c \in DOMAIN index \cup {code} |->
        IF c = code
        THEN (IF c \in DOMAIN index THEN Append(index[c], v) ELSE <<v>>)
        ELSE index[c]]

\* build_invoice_index; a queue holds the rows by their position in rows
RECURSIVE BuildInvoiceIndexFrom(_, _, _)
BuildInvoiceIndexFrom(rows, k, index) ==
    IF k > Len(rows) THEN index
    ELSE BuildInvoiceIndexFrom(rows, k + 1,
             IndexAppend(index, oc_normalize_text(rows[k].kod), k))

build_invoice_index(rows) == BuildInvoiceIndexFrom(rows, 1, <<>>)

\* build_order_index: order_rows[1:], by position in order_rows
RECURSIVE BuildOrderIndexFrom(_, _, _)
BuildOrderIndexFrom(rows, k, index) ==
    IF k > Len(rows) THEN index
    ELSE BuildOrderIndexFrom(rows, k + 1,
             IndexAppend(index, left_until_underscore(get_column(rows[k], CodeColumn)), k))

build_order_index(rows) == BuildOrderIndexFrom(rows, 2, <<>>)

\* mutant of Popped: pop() in place of popleft()
Popped_Last(index, code) ==
    IF code \in DOMAIN index /\ index[code] # <<>>
    THEN index[code][Len(index[code])] ELSE 0

\* queue = index.get(code); the position popleft() returns, 0 when the queue
\* is missing or empty
Popped(index, code) ==
    IF code \in DOMAIN index /\ index[code] # <<>> THEN Head(index[code]) ELSE 0

\* the index after that popleft()
AfterPop(index, code) ==
    IF code \in DOMAIN index /\ index[code] # <<>>
    THEN [index EXCEPT ![code] = Tail(@)] ELSE index

FieldNames == <<"db", "egyseg_ar", "netto_ar">>

\* the order cell compared with an invoice field
OrderCell(order_row, field) ==
    CASE field = "db"        -> get_column(order_row, QtyColumn)
      [] field = "egyseg_ar" -> get_column(order_row, UnitColumn)
      [] field = "netto_ar"  -> get_column(order_row, NetColumn)

\* one of the three numbers_equal calls of a paired row raises
FieldsRaise(order_row, invoice_row) ==
    \E k \in 1..Len(FieldNames) :
        numbers_equal_raises(OrderCell(order_row, FieldNames[k]), invoice_row[FieldNames[k]])

\* the names the three numbers_equal tests append, in order
FieldMismatches(order_row, invoice_row) ==
    SelectSeq(FieldNames,
              LAMBDA f : ~numbers_equal(OrderCell(order_row, f), invoice_row[f]))

\* mutant of OrderMismatches: the key is compared with the kod cell as read
OrderMismatches_RawKod(row, order_kod, j) ==
    IF j = 0 THEN <<"missing_invoice_row">>
    ELSE (IF order_kod # invoice_rows[j].kod THEN <<"kod">> ELSE <<>>)
         \o FieldMismatches(row, invoice_rows[j])

\* mismatches of an order row in compare_rows; j: position of the popped
\* invoice row, 0 for none
OrderMismatches(row, order_kod, j) ==
    IF j = 0 THEN <<"missing_invoice_row">>
    ELSE (IF oc_normalize_text(order_kod) # oc_normalize_text(invoice_rows[j].kod)
          THEN <<"kod">> ELSE <<>>)
         \o FieldMismatches(row, invoice_rows[j])

\* mutant of InvoiceMismatches: no marker for a missing order row
InvoiceMismatches_NoMarker(invoice_row, j) ==
    IF j = 0 THEN <<>> ELSE FieldMismatches(order_rows[j], invoice_row)

\* mismatches of an invoice row in compare_invoice_rows; j: position of the
\* popped order row, 0 for none
InvoiceMismatches(invoice_row, j) ==
    IF j = 0 THEN <<"missing_order_row">>
    ELSE FieldMismatches(order_rows[j], invoice_row)

Status(mismatches) == IF mismatches = <<>> THEN "OK" ELSE "Mismatch"

\* mutant of RowAfterCopy: the cells are moved out of the order row
RowAfterCopy_Moved(row, cells) == <<>>

\* list(row) + cells builds a new list: the cells the order row holds
\* afterwards
RowAfterCopy(row, cells) == row

\* mutant of OrderOutputRow: the cells of the order row are left out
OrderOutputRow_NoCells(row, order_kod, mismatches) ==
    <<order_kod, Status(mismatches), mismatches>>

\* list(row) + [order_kod, status, mismatch_details]; the comma-joined
\* mismatch_details is kept as the list of names it joins
OrderOutputRow(row, order_kod, mismatches) ==
    row \o <<order_kod, Status(mismatches), mismatches>>

\* invoice_header: FIELDNAMES; szin, meret, m2 and ossz_m2 are copied to the
\* report the way termek is
FIELDNAMES == <<"termek", "db", "egyseg_ar", "netto_ar", "kod">>

\* write_report: a sheet of rows, each data row filled green or red
Sheet(title, rows, row_matches) ==
    [title |-> title,
     rows  |-> rows,
     fill  |-> [idx \in 1..Len(row_matches) |->
                   IF idx = 1 THEN "none"
                   ELSE IF row_matches[idx] THEN "GREEN" ELSE "RED"]]

\* ---- bounded inputs of the reconciliation runs ----
MaxOrderRows == 2
MaxInvoiceRows == 2
Filler == <<"f">>
KeyLong == Repeat("a", UnderscoreFrom)
Num(a, b, c) == <<a, b, c>>
\* quantity, unit price, net price
OrderRow(code, n) ==
    <<Filler, Filler, Filler, code, Filler, n[1], Filler, Filler, n[2], n[3]>>
\* data rows of ten cells, and a row too short to have a code column
OrderDataRows ==
    { OrderRow(<<" ", "K">>, Num(<<"2">>, <<"5">>, <<"9">>)),
      OrderRow(<<"K">>, Num(<<"x">>, <<"5">>, <<"8">>)),
      OrderRow(<<" ", "K">>, Num(<<"s","N","a","N">>, <<"5">>, <<"9">>)),
      OrderRow(KeyLong \o <<"_", "b">>, Num(<<"x">>, <<"5">>, <<"8">>)),
      <<Filler, Filler>> }
OrderHeader == <<Filler, Filler, Filler, <<"c","o","d","e">> >>
InvoiceRow(kod, n) ==
    [termek |-> Filler, db |-> n[1], egyseg_ar |-> n[2], netto_ar |-> n[3],
     kod |-> kod]
InvoiceDataRows ==
    { InvoiceRow(<<"K", " ">>, Num(<<"2",",","0">>, <<"5">>, <<"9">>)),
      InvoiceRow(<<"K", " ">>, Num(<<"x">>, <<"5">>, <<"9">>)),
      InvoiceRow(KeyLong, Num(<<"x">>, <<"5">>, <<"9">>)),
      InvoiceRow(None_, Num(None_, <<"6">>, <<"9">>)) }
\* the rows read from the order file: none, or a header and data rows
OrderRowsInputs ==
    {<<>>} \cup
    {<<OrderHeader>> \o d : d \in UNION {[1..n -> OrderDataRows] : n \in 0..MaxOrderRows}}
InvoiceRowsInputs == UNION {[1..n -> InvoiceDataRows] : n \in 0..MaxInvoiceRows}

Init ==
    /\ pc = "request"
    /\ invoice_file \in BOOLEAN
    /\ order_file \in BOOLEAN
    /\ order_rows \in (IF invoice_file /\ order_file THEN OrderRowsInputs ELSE {<<>>})
    /\ invoice_rows \in (IF invoice_file /\ order_file /\ order_rows # <<>>
                         THEN InvoiceRowsInputs ELSE {<<>>})
    /\ response = "none"
    /\ invoice_index = <<>> /\ order_output_rows = <<>> /\ order_row_matches = <<>>
    /\ order_index = <<>> /\ invoice_output_rows = <<>> /\ invoice_row_matches = <<>>
    /\ order_pairs = <<>> /\ invoice_pairs = <<>> /\ report = <<>> /\ calls = <<>>
    /\ nt_pc = "idle" /\ nt_value = <<>> /\ nt_once = <<>> /\ nt_twice = <<>>
    /\ lu_pc = "idle" /\ lu_value = <<>> /\ lu_once = <<>>
    /\ lu_twice = <<>> /\ lu_trim = <<>>
    /\ tr_pc = "idle" /\ tr_rows = <<>> /\ tr_table = <<>> /\ tr_translated = <<>>
    /\ ps_pc = "idle" /\ ps_lines = <<>> /\ ps_i = 0 /\ ps_in_table = FALSE
    /\ ps_rows = <<>> /\ ps_index = <<>>

otherVars == <<normVars, keyVars, transVars, parseVars>>

\* compare(): a file is missing, the form is rendered again with the error
CompareMissingUpload ==
    /\ pc = "request"
    /\ ~invoice_file \/ ~order_file
    /\ response' = "form_error"
    /\ pc' = "done"
    /\ UNCHANGED <<invoice_file, order_file, order_rows, invoice_rows,
                   invoice_index, order_output_rows, order_row_matches,
                   order_index, invoice_output_rows, invoice_row_matches, report,
                   order_pairs, invoice_pairs, calls, otherVars>>

\* compare(): ensure_rows raises ValueError, which nothing catches
CompareEnsureRowsRaises ==
    /\ pc = "request"
    /\ invoice_file /\ order_file
    /\ order_rows = <<>>
    /\ response' = "ValueError"
    /\ pc' = "done"
    /\ UNCHANGED <<invoice_file, order_file, order_rows, invoice_rows,
                   invoice_index, order_output_rows, order_row_matches,
                   order_index, invoice_output_rows, invoice_row_matches, report,
                   order_pairs, invoice_pairs, calls, otherVars>>

\* compare() calls compare_rows: the index is built, the header row written
CompareRowsStart ==
    /\ pc = "request"
    /\ invoice_file /\ order_file
    /\ order_rows # <<>>
    /\ invoice_index' = build_invoice_index(invoice_rows)
    /\ order_output_rows' =
           <<order_rows[1] \o <<"processed_kod", "status", "mismatch_details">> >>
    /\ order_row_matches' = <<TRUE>>
    /\ pc' = "compare_rows"
    /\ calls' = Append(calls, "compare_rows")
    /\ UNCHANGED <<invoice_file, order_file, order_rows, invoice_rows, response,
                   order_index, invoice_output_rows, invoice_row_matches, report,
                   order_pairs, invoice_pairs, otherVars>>

\* compare_rows: one iteration of "for row in order_rows[1:]"
CompareRowsStep ==
    /\ pc = "compare_rows"
    /\ Len(order_output_rows) < Len(order_rows)
    /\ LET row        == order_rows[Len(order_output_rows) + 1]
           order_kod  == left_until_underscore(get_column(row, CodeColumn))
           j          == Popped(invoice_index, order_kod)
           mismatches == OrderMismatches(row, order_kod, j)
       IN  /\ j # 0 => ~FieldsRaise(row, invoice_rows[j])
           /\ invoice_index' = AfterPop(invoice_index, order_kod)
           /\ order_output_rows' =
                  Append(order_output_rows, OrderOutputRow(row, order_kod, mismatches))
           /\ order_row_matches' = Append(order_row_matches, mismatches = <<>>)
           /\ order_rows' =
                  [order_rows EXCEPT ![Len(order_output_rows) + 1] =
                      RowAfterCopy(row, <<order_kod, Status(mismatches), mismatches>>)]
           /\ order_pairs' = Append(order_pairs, j)
    /\ UNCHANGED <<pc, invoice_file, order_file, invoice_rows, response,
                   order_index, invoice_output_rows, invoice_row_matches, report,
                   invoice_pairs, calls, otherVars>>

\* compare_rows: numbers_equal raises InvalidOperation, which nothing catches
CompareRowsRaises ==
    /\ pc = "compare_rows"
    /\ Len(order_output_rows) < Len(order_rows)
    /\ LET row       == order_rows[Len(order_output_rows) + 1]
           order_kod == left_until_underscore(get_column(row, CodeColumn))
           j         == Popped(invoice_index, order_kod)
       IN  /\ j # 0 /\ FieldsRaise(row, invoice_rows[j])
           /\ invoice_index' = AfterPop(invoice_index, order_kod)
    /\ response' = "InvalidOperation"
    /\ pc' = "done"
    /\ UNCHANGED <<invoice_file, order_file, order_rows, invoice_rows,
                   order_output_rows, order_row_matches,
                   order_index, invoice_output_rows, invoice_row_matches, report,
                   order_pairs, invoice_pairs, calls, otherVars>>

\* compare_rows returns; compare() calls compare_invoice_rows: the index is
\* built, the header row written
CompareInvoiceRowsStart ==
    /\ pc = "compare_rows"
    /\ Len(order_output_rows) = Len(order_rows)
    /\ order_index' = build_order_index(order_rows)
    /\ invoice_output_rows' = <<FIELDNAMES \o <<"status", "mismatch_details">> >>
    /\ invoice_row_matches' = <<TRUE>>
    /\ pc' = "compare_invoice_rows"
    /\ calls' = Append(calls, "compare_invoice_rows")
    /\ UNCHANGED <<invoice_file, order_file, order_rows, invoice_rows, response,
                   invoice_index, order_output_rows, order_row_matches, report,
                   order_pairs, invoice_pairs, otherVars>>

\* the cells [invoice_row.get(name, "") for name in invoice_header]
RowValues(invoice_row) == [k \in 1..Len(FIELDNAMES) |-> invoice_row[FIELDNAMES[k]]]

\* compare_invoice_rows: one iteration of "for invoice_row in invoice_rows"
\* in which numbers_equal does not raise
CompareInvoiceRowsStep ==
    /\ pc = "compare_invoice_rows"
    /\ Len(invoice_output_rows) - 1 < Len(invoice_rows)
    /\ LET invoice_row  == invoice_rows[Len(invoice_output_rows)]
           invoice_code == oc_normalize_text(invoice_row.kod)
           j            == Popped(order_index, invoice_code)
           mismatches   == InvoiceMismatches(invoice_row, j)
       IN  /\ j # 0 => ~FieldsRaise(order_rows[j], invoice_row)
           /\ order_index' = AfterPop(order_index, invoice_code)
           /\ invoice_output_rows' =
                  Append(invoice_output_rows,
                         RowValues(invoice_row) \o <<Status(mismatches), mismatches>>)
           /\ invoice_row_matches' = Append(invoice_row_matches, mismatches = <<>>)
           /\ invoice_pairs' = Append(invoice_pairs, j)
    /\ UNCHANGED <<pc, invoice_file, order_file, order_rows, invoice_rows, response,
                   invoice_index, order_output_rows, order_row_matches, report,
                   order_pairs, calls, otherVars>>

\* compare_invoice_rows: numbers_equal raises InvalidOperation.  In compare()
\* this pass pairs the rows compare_rows paired and compare_rows has
\* returned, so it raises only when it is the first pass called.
CompareInvoiceRowsRaises ==
    /\ pc = "compare_invoice_rows"
    /\ Len(invoice_output_rows) - 1 < Len(invoice_rows)
    /\ LET invoice_row  == invoice_rows[Len(invoice_output_rows)]
           invoice_code == oc_normalize_text(invoice_row.kod)
           j            == Popped(order_index, invoice_code)
       IN  /\ j # 0 /\ FieldsRaise(order_rows[j], invoice_row)
           /\ order_index' = AfterPop(order_index, invoice_code)
    /\ response' = "InvalidOperation"
    /\ pc' = "done"
    /\ UNCHANGED <<invoice_file, order_file, order_rows, invoice_rows,
                   invoice_index, order_output_rows, order_row_matches,
                   invoice_output_rows, invoice_row_matches, report,
                   order_pairs, invoice_pairs, calls, otherVars>>

\* compare_invoice_rows returns; both sheets are written and sent
SendReport ==
    /\ pc = "compare_invoice_rows"
    /\ Len(invoice_output_rows) - 1 = Len(invoice_rows)
    /\ report' = <<Sheet("Order_to_Invoice", order_output_rows, order_row_matches),
                   Sheet("Invoice_to_Order", invoice_output_rows, invoice_row_matches)>>
    /\ response' = "download"
    /\ pc' = "done"
    /\ UNCHANGED <<invoice_file, order_file, order_rows, invoice_rows,
                   invoice_index, order_output_rows, order_row_matches,
                   order_index, invoice_output_rows, invoice_row_matches,
                   order_pairs, invoice_pairs, calls, otherVars>>

(***************************************************************************)
(* The two passes called on the same two lists, in either order            *)
(***************************************************************************)
Range(f) == {f[k] : k \in DOMAIN f}

\* the two lists handed to both passes; neither pass has been called
PassesInit ==
    /\ pc = "call"
    /\ invoice_file = TRUE /\ order_file = TRUE
    /\ order_rows \in OrderRowsInputs
    /\ invoice_rows \in InvoiceRowsInputs
    /\ response = "none"
    /\ invoice_index = <<>> /\ order_output_rows = <<>> /\ order_row_matches = <<>>
    /\ order_index = <<>> /\ invoice_output_rows = <<>> /\ invoice_row_matches = <<>>
    /\ order_pairs = <<>> /\ invoice_pairs = <<>> /\ report = <<>> /\ calls = <<>>
    /\ nt_pc = "idle" /\ nt_value = <<>> /\ nt_once = <<>> /\ nt_twice = <<>>
    /\ lu_pc = "idle" /\ lu_value = <<>> /\ lu_once = <<>>
    /\ lu_twice = <<>> /\ lu_trim = <<>>
    /\ tr_pc = "idle" /\ tr_rows = <<>> /\ tr_table = <<>> /\ tr_translated = <<>>
    /\ ps_pc = "idle" /\ ps_lines = <<>> /\ ps_i = 0 /\ ps_in_table = FALSE
    /\ ps_rows = <<>> /\ ps_index = <<>>

\* compare_rows has gone through "for row in order_rows[1:]"
OrderPassFinished ==
    pc = "compare_rows" /\ Len(order_output_rows) = Len(order_rows)

\* compare_invoice_rows has gone through "for invoice_row in invoice_rows"
InvoicePassFinished ==
    pc = "compare_invoice_rows" /\ Len(invoice_output_rows) - 1 = Len(invoice_rows)

\* compare_rows is called, first or once compare_invoice_rows has returned:
\* the index is built and, unless order_rows is empty, the header row written
CallCompareRows ==
    /\ "compare_rows" \notin Range(calls)
    /\ pc = "call" \/ InvoicePassFinished
    /\ invoice_index' = build_invoice_index(invoice_rows)
    /\ order_output_rows' =
           IF order_rows = <<>> THEN <<>>
           ELSE <<order_rows[1] \o <<"processed_kod", "status", "mismatch_details">> >>
    /\ order_row_matches' = IF order_rows = <<>> THEN <<>> ELSE <<TRUE>>
    /\ pc' = "compare_rows"
    /\ calls' = Append(calls, "compare_rows")
    /\ UNCHANGED <<invoice_file, order_file, order_rows, invoice_rows, response,
                   order_index, invoice_output_rows, invoice_row_matches, report,
                   order_pairs, invoice_pairs, otherVars>>

\* compare_invoice_rows is called, first or once compare_rows has returned:
\* the index is built, the header row written
CallCompareInvoiceRows ==
    /\ "compare_invoice_rows" \notin Range(calls)
    /\ pc = "call" \/ OrderPassFinished
    /\ order_index' = build_order_index(order_rows)
    /\ invoice_output_rows' = <<FIELDNAMES \o <<"status", "mismatch_details">> >>
    /\ invoice_row_matches' = <<TRUE>>
    /\ pc' = "compare_invoice_rows"
    /\ calls' = Append(calls, "compare_invoice_rows")
    /\ UNCHANGED <<invoice_file, order_file, order_rows, invoice_rows, response,
                   invoice_index, order_output_rows, order_row_matches, report,
                   order_pairs, invoice_pairs, otherVars>>

\* the pass called second returns
PassesReturn ==
    /\ Len(calls) = 2
    /\ OrderPassFinished \/ InvoicePassFinished
    /\ pc' = "done"
    /\ UNCHANGED <<invoice_file, order_file, order_rows, invoice_rows, response,
                   invoice_index, order_output_rows, order_row_matches,
                   order_index, invoice_output_rows, invoice_row_matches, report,
                   order_pairs, invoice_pairs, calls, otherVars>>

\* what a pass gives when numbers_equal raises inside it
Raised == <<"InvalidOperation">>

\* compare_rows(orows, irows) from its k-th row on: the output rows
RECURSIVE CompareRowsFrom(_, _, _, _, _)
CompareRowsFrom(orows, irows, k, index, out) ==
    IF k > Len(orows) THEN out
    ELSE LET row        == orows[k]
             order_kod  == left_until_underscore(get_column(row, CodeColumn))
             j          == Popped(index, order_kod)
             mismatches ==
                 IF j = 0 THEN <<"missing_invoice_row">>
                 ELSE (IF oc_normalize_text(order_kod) # oc_normalize_text(irows[j].kod)
                       THEN <<"kod">> ELSE <<>>)
                      \o FieldMismatches(row, irows[j])
         IN  IF j # 0 /\ FieldsRaise(row, irows[j]) THEN Raised
             ELSE CompareRowsFrom(orows, irows, k + 1, AfterPop(index, order_kod),
                      Append(out, row \o <<order_kod, Status(mismatches), mismatches>>))

\* the output rows of compare_rows called on its own
compare_rows(orows, irows) ==
    IF orows = <<>> THEN <<>>
    ELSE CompareRowsFrom(orows, irows, 2, build_invoice_index(irows),
             <<orows[1] \o <<"processed_kod", "status", "mismatch_details">> >>)

\* compare_invoice_rows(orows, irows) from its k-th row on: the output rows
RECURSIVE CompareInvoiceRowsFrom(_, _, _, _, _)
CompareInvoiceRowsFrom(orows, irows, k, index, out) ==
    IF k > Len(irows) THEN out
    ELSE LET invoice_row  == irows[k]
             invoice_code == oc_normalize_text(invoice_row.kod)
             j            == Popped(index, invoice_code)
             mismatches   == IF j = 0 THEN <<"missing_order_row">>
                             ELSE FieldMismatches(orows[j], invoice_row)
         IN  IF j # 0 /\ FieldsRaise(orows[j], invoice_row) THEN Raised
             ELSE CompareInvoiceRowsFrom(orows, irows, k + 1,
                      AfterPop(index, invoice_code),
                      Append(out, RowValues(invoice_row)
                                  \o <<Status(mismatches), mismatches>>))

\* the output rows of compare_invoice_rows called on its own
compare_invoice_rows(orows, irows) ==
    CompareInvoiceRowsFrom(orows, irows, 1, build_order_index(orows),
        <<FIELDNAMES \o <<"status", "mismatch_details">> >>)

\* row_matches of a pass: True for the header row, "not mismatches" for others
RowMatches(out) ==
    [k \in 1..Len(out) |-> k = 1 \/ out[k][Len(out[k])] = <<>>]

(***************************************************************************)
(* Specifications                                                          *)
(***************************************************************************)
NormNext == NormalizeOnce \/ NormalizeTwice
SpecNormalize == NormInit /\ [][NormNext]_vars

KeyNext == DeriveKey \/ DeriveKeyAgain
SpecKey == KeyInit /\ [][KeyNext]_vars

TransNext == ApplyTranslationsRow \/ ApplyTranslationsReturn
SpecTranslate == TransInit /\ [][TransNext]_vars

ParseNext == ScanHeading \/ ScanAccept \/ ScanSkip \/ ScanReturn
SpecParse == ParseInit /\ [][ParseNext]_vars
\* parse_rows from its call on: the straight-line entry and the while loop
\* both run on until the loop condition fails
ParseCallNext == ParseRowsCall \/ ScanHeading \/ ScanAccept \/ ScanSkip \/ ScanReturn
SpecParseFair == ParseCallInit /\ [][ParseCallNext]_vars /\ WF_vars(ParseCallNext)

Next ==
    \/ CompareMissingUpload
    \/ CompareEnsureRowsRaises
    \/ CompareRowsStart
    \/ CompareRowsStep
    \/ CompareRowsRaises
    \/ CompareInvoiceRowsStart
    \/ CompareInvoiceRowsStep
    \/ SendReport
Spec == Init /\ [][Next]_vars

PassesNext ==
    \/ CallCompareRows
    \/ CallCompareInvoiceRows
    \/ CompareRowsStep
    \/ CompareRowsRaises
    \/ CompareInvoiceRowsStep
    \/ CompareInvoiceRowsRaises
    \/ PassesReturn
SpecPasses == PassesInit /\ [][PassesNext]_vars

(***************************************************************************)
(* Claims                                                                  *)
(***************************************************************************)
\* C3: text normalization is idempotent:
\* normalize_text(normalize_text(x)) = normalize_text(x) for every string x.
NormalizeIdempotent == nt_pc = "twice" => nt_twice = nt_once

\* C4: key derivation is truncation-stable: the order-side key derived from
\* an already derived key is that key, and the invoice-side key (the trimmed
\* kod) is unchanged by trimming it again.
KeyTruncationStable ==
    lu_pc = "twice" =>
        /\ lu_twice = lu_once
        /\ oc_normalize_text(lu_trim) = lu_trim
\* C7: the kod of every translated row follows exactly one of three rules,
\* tried in this order, empty segments left out of the "_"-join:
\* (1) size "718x250": NFAH_<model_code>_<color_code>_<size>, also when the
\* size is a standard size; (2) a standard size: <product_code>_<color_code>_
\* <size>; (3) otherwise NFAY_<model_code>_<color_code>_<size>.  model_code is
\* the last "_"-delimited segment of the product code; product and color code
\* fall back to the normalized text when the table has no entry.  The size is
\* the size with its spaces removed.
C7Segments(i) ==
    LET row   == tr_rows[i]
        text  == normalize_text(row.termek)
        color == normalize_text(row.szin)
        size  == tr_translated[i].meret
        pcode == IF text \in DOMAIN tr_table.products
                    /\ tr_table.products[text].code # None_
                 THEN tr_table.products[text].code ELSE text
        ccode == IF color \in DOMAIN tr_table.colors
                    /\ tr_table.colors[color].code # None_
                 THEN tr_table.colors[color].code ELSE color
        segs  == SplitOn(pcode, "_", <<>>)
        model == segs[Len(segs)]
    IN  CASE size = SpecialSize -> <<NFAH, model, ccode, size>>
          [] size # SpecialSize /\ size \in tr_table.standard_sizes ->
                 <<pcode, ccode, size>>
          [] OTHER -> <<NFAY, model, ccode, size>>

AcceptedRowsValid ==
    /\ Len(ps_index) = Len(ps_rows)
    /\ \A k \in 1..Len(ps_rows) :
        LET i == ps_index[k] IN
        /\ i + 9 <= Len(ps_lines)
        /\ IsDigit(ps_lines[i + 1])
        /\ ps_rows[k].termek = ps_lines[i + 2]
        /\ ps_rows[k].szin = ps_lines[i + 3]
        /\ ps_rows[k].meret = ps_lines[i + 4]
        /\ \E c \in 1..Len(ps_lines[i + 4]) : ps_lines[i + 4][c] = "x"
        /\ \A j \in 5..9 : IsFloat(normalize_numeric(ps_lines[i + j]))
        /\ <<ps_rows[k].m2, ps_rows[k].db, ps_rows[k].ossz_m2,
             ps_rows[k].egyseg_ar, ps_rows[k].netto_ar>> =
           [j \in 1..5 |-> normalize_numeric(ps_lines[i + 4 + j])]

\* C5 witness: the scan has ended having accepted one block and rejected a
\* block inside the table whose size or numeric line is malformed.
AcceptedAndRejectedWitness ==
    /\ ps_pc = "returned"
    /\ Len(ps_rows) = 1
    /\ \E i \in 0..(Len(ps_lines) - 9) :
        /\ i \notin {ps_index[k] : k \in 1..Len(ps_index)}
        /\ IsDigit(ps_lines[i + 1])
        /\ ps_lines[i + 2] = <<"p">>
        /\ ~RecordValid(Candidate(ps_lines, i))
        /\ \E h \in 1..i : ps_lines[h] = NettoAr
        /\ \A h \in 1..i : ~StartsWith(ps_lines[h], Osszesitve)

\* positions (0-based) of the lines that are fields of an accepted record
FieldPositions ==
    UNION {(ps_index[k] + 1)..(ps_index[k] + 8) : k \in 1..Len(ps_index)}

SetMax(S) == CHOOSE m \in S : \A n \in S : n <= m

\* C6 as stated: each accepted record's index line comes after a line equal to
\* "Netto ar", and no line starting with "Osszesitve" lies between the most
\* recent such heading line and that index line.
AcceptedInsideTable ==
    \A k \in 1..Len(ps_index) :
        LET i  == ps_index[k]
            Hs == {h \in 0..(i - 1) : ps_lines[h + 1] = NettoAr}
        IN  /\ Hs # {}
            /\ \A q \in (SetMax(Hs) + 1)..(i - 1) :
                   ~StartsWith(ps_lines[q + 1], Osszesitve)

\* C6 amended: the same, counting only the lines the scanner examines, that
\* is the lines that are not fields of an accepted record.
AcceptedInsideScannedTable ==
    \A k \in 1..Len(ps_index) :
        LET i  == ps_index[k]
            Hs == {h \in 0..(i - 1) :
                      ps_lines[h + 1] = NettoAr /\ h \notin FieldPositions}
        IN  /\ Hs # {}
            /\ \A q \in (SetMax(Hs) + 1)..(i - 1) :
                   StartsWith(ps_lines[q + 1], Osszesitve) => q \in FieldPositions

\* C6 witness: two records were accepted after one heading although the
\* product line of the first starts with "Osszesitve": the scanner never
\* examined that line.
SummaryFieldWitness ==
    /\ ps_pc = "returned"
    /\ Len(ps_rows) = 2
    /\ StartsWith(ps_rows[1].termek, Osszesitve)
    /\ Cardinality({h \in 1..Len(ps_lines) : ps_lines[h] = NettoAr}) = 1
\* the order-side key of the row at position p of order_rows, and the
\* invoice-side key of the row at position q of invoice_rows
OrderKey(p) == left_until_underscore(get_column(order_rows[p], CodeColumn))
InvoiceKey(q) == oc_normalize_text(invoice_rows[q].kod)

\* the order-driven pass has returned / the invoice-driven pass has returned
OrderPassReturned == pc = "compare_invoice_rows" \/ response = "download"
InvoicePassReturned == response = "download"

PositionsUpTo(n, P(_)) == SelectSeq([i \in 1..n |-> i], P)

\* the partner the claim gives the driving row that is the j-th with its key:
\* the j-th of the other-side rows with that key, 0 when there are fewer
JthOrNone(others, j) == IF j <= Len(others) THEN others[j] ELSE 0

\* C2: in each pass, after any prefix of driving rows, no other-side row is
\* paired with two driving rows, and the j-th driving row with key K is
\* paired with the j-th other-side row with key K, and unmatched exactly when
\* fewer than j other-side rows have key K.
QueueOrderedPairing ==
    /\ \A k \in 1..Len(order_pairs) :
        LET key == OrderKey(k + 1)
            j   == Len(PositionsUpTo(k, LAMBDA m : OrderKey(m + 1) = key))
        IN  order_pairs[k] =
                JthOrNone(PositionsUpTo(Len(invoice_rows), LAMBDA q : InvoiceKey(q) = key), j)
    /\ \A k, m \in 1..Len(order_pairs) :
        k # m /\ order_pairs[k] # 0 => order_pairs[k] # order_pairs[m]
    /\ \A k \in 1..Len(invoice_pairs) :
        LET key == InvoiceKey(k)
            j   == Len(PositionsUpTo(k, LAMBDA m : InvoiceKey(m) = key))
            others == PositionsUpTo(Len(order_rows),
                                    LAMBDA p : p >= 2 /\ OrderKey(p) = key)
        IN  invoice_pairs[k] = JthOrNone(others, j)
    /\ \A k, m \in 1..Len(invoice_pairs) :
        k # m /\ invoice_pairs[k] # 0 => invoice_pairs[k] # invoice_pairs[m]

\* C2 witness: two order rows and two invoice rows share one key, derived
\* from different cell texts, and were paired in both passes.
SharedKeyPairedWitness ==
    /\ response = "download"
    /\ order_pairs = <<1, 2>>
    /\ invoice_pairs = <<2, 3>>
    /\ OrderKey(2) = <<"K">>
    /\ get_column(order_rows[2], CodeColumn) # <<"K">>
    /\ invoice_rows[1] # invoice_rows[2]
    /\ order_rows[2] # order_rows[3]

\* C8: a bad upload (a file missing, or an order file of zero rows) ends
\* with the upload form rendered again with an error, and no report.
BadUploadRendersForm ==
    pc = "done" /\ (~invoice_file \/ ~order_file \/ order_rows = <<>>) =>
        response = "form_error" /\ report = <<>>

\* status and mismatch list of the k-th data row of an output
StatusOf(output, k) == output[k + 1][Len(output[k + 1]) - 1]
DetailsOf(output, k) == output[k + 1][Len(output[k + 1])]

\* C9: in both passes a row's status is OK exactly when its mismatch list is
\* empty, else Mismatch, and its match flag is (status = OK); an unmatched
\* driving row gets Mismatch with just the missing marker; a paired row whose
\* quantity, unit price and net price compare equal gets OK and an empty list.
StatusMatchesMismatches ==
    /\ Len(order_row_matches) = Len(order_output_rows)
    /\ Len(invoice_row_matches) = Len(invoice_output_rows)
    /\ \A k \in 1..Len(order_pairs) :
        LET status  == StatusOf(order_output_rows, k)
            details == DetailsOf(order_output_rows, k)
            row     == order_rows[k + 1]
        IN  /\ status \in {"OK", "Mismatch"}
            /\ status = "OK" <=> details = <<>>
            /\ order_row_matches[k + 1] = (status = "OK")
            /\ order_pairs[k] = 0 =>
                   status = "Mismatch" /\ details = <<"missing_invoice_row">>
            /\ (/\ order_pairs[k] # 0
                /\ \A f \in {"db", "egyseg_ar", "netto_ar"} :
                       numbers_equal(OrderCell(row, f), invoice_rows[order_pairs[k]][f]))
               => status = "OK" /\ details = <<>>
    /\ \A k \in 1..Len(invoice_pairs) :
        LET status  == StatusOf(invoice_output_rows, k)
            details == DetailsOf(invoice_output_rows, k)
        IN  /\ status \in {"OK", "Mismatch"}
            /\ status = "OK" <=> details = <<>>
            /\ invoice_row_matches[k + 1] = (status = "OK")
            /\ invoice_pairs[k] = 0 =>
                   status = "Mismatch" /\ details = <<"missing_order_row">>
            /\ (/\ invoice_pairs[k] # 0
                /\ \A f \in {"db", "egyseg_ar", "netto_ar"} :
                       numbers_equal(OrderCell(order_rows[invoice_pairs[k]], f),
                                     invoice_rows[k][f]))
               => status = "OK" /\ details = <<>>
    /\ response = "download" =>
        /\ \A k \in 1..Len(order_pairs) :
               report[1].fill[k + 1] =
                   IF StatusOf(order_output_rows, k) = "OK" THEN "GREEN" ELSE "RED"
        /\ \A k \in 1..Len(invoice_pairs) :
               report[2].fill[k + 1] =
                   IF StatusOf(invoice_output_rows, k) = "OK" THEN "GREEN" ELSE "RED"

\* C9 witness: the report holds, in both sheets, an OK row with no mismatch
\* and an unmatched row with only its missing marker.
OkAndMissingWitness ==
    /\ response = "download"
    /\ \E k, m \in 1..Len(order_pairs) :
        /\ StatusOf(order_output_rows, k) = "OK" /\ order_pairs[k] # 0
        /\ DetailsOf(order_output_rows, m) = <<"missing_invoice_row">>
    /\ \E k, m \in 1..Len(invoice_pairs) :
        /\ StatusOf(invoice_output_rows, k) = "OK" /\ invoice_pairs[k] # 0
        /\ DetailsOf(invoice_output_rows, m) = <<"missing_order_row">>

\* a value is unparseable: None, empty, or not a decimal after the spaces
\* are removed and "," replaced by "."
Unparseable(value) == oc_normalize_numeric(value) = DecNone

\* C10: a malformed numeric cell never aborts matching; numbers_equal is
\* true when both values are unparseable, false when exactly one is, and
\* otherwise true exactly when the parsed decimal values are equal; a field
\* name is in the mismatch list exactly when numbers_equal is false for it.
MalformedCellNeverAborts ==
    /\ response # "InvalidOperation"
    /\ \A k \in 1..Len(order_pairs) :
        order_pairs[k] # 0 =>
            \A f \in {"db", "egyseg_ar", "netto_ar"} :
                LET l  == OrderCell(order_rows[k + 1], f)
                    r  == invoice_rows[order_pairs[k]][f]
                    eq == IF Unparseable(l) /\ Unparseable(r) THEN TRUE
                          ELSE IF Unparseable(l) \/ Unparseable(r) THEN FALSE
                          ELSE DecimalEq(oc_normalize_numeric(l), oc_normalize_numeric(r))
                    details == DetailsOf(order_output_rows, k)
                IN  /\ numbers_equal(l, r) = eq
                    /\ (\E c \in 1..Len(details) : details[c] = f) <=> ~eq
\* a step of the scanner moves the cursor forward: a step that accepts the
\* record at i moves it to i + 9, or to i + 10 when line i + 9 starts with
\* "Negyzetmeterar"; any other step of the loop moves it to i + 1
CursorMovesForward ==
    ps_pc = "scan" =>
    /\ ps_i' >= ps_i
    /\ Len(ps_rows') = Len(ps_rows) + 1 =>
        /\ ps_index' = Append(ps_index, ps_i)
        /\ ps_i' = IF ps_i + 9 < Len(ps_lines)
                      /\ StartsWith(ps_lines[ps_i + 10], Negyzetmeterar)
                   THEN ps_i + 10 ELSE ps_i + 9
    /\ Len(ps_rows') = Len(ps_rows) /\ ps_pc' = "scan" => ps_i' = ps_i + 1
    /\ ps_pc' # ps_pc => ps_pc' = "returned" /\ ps_i >= Len(ps_lines)

\* no input line belongs to two accepted records
NoSharedLine ==
    \A k, m \in 1..Len(ps_index) :
        k # m => (ps_index[k]..(ps_index[k] + 8)) \cap (ps_index[m]..(ps_index[m] + 8)) = {}

\* C11: the cursor only moves forward, by 9 (10 past a "Negyzetmeterar"
\* line) when a record is accepted and by 1 at every other line, the scan of
\* every input ends, and no line belongs to two accepted records.
ScanMovesForwardAndEnds ==
    /\ [][CursorMovesForward]_vars
    /\ []NoSharedLine
    /\ <>(ps_pc = "returned")

\* C11 witness: the scan has ended after accepting a record followed by a
\* "Negyzetmeterar" line, and after stepping over a digit-only line inside
\* the table that has fewer than 8 lines after it.
SkippedAndSteppedWitness ==
    /\ ps_pc = "returned"
    /\ Len(ps_rows) = 1
    /\ ps_index[1] + 9 < Len(ps_lines)
    /\ StartsWith(ps_lines[ps_index[1] + 10], Negyzetmeterar)
    /\ \E q \in (ps_index[1] + 10)..(Len(ps_lines) - 1) :
        /\ IsDigit(ps_lines[q + 1])
        /\ q + 8 >= Len(ps_lines)
    /\ \A q \in (ps_index[1] + 10)..(Len(ps_lines) - 1) :
        ps_lines[q + 1] # NettoAr /\ ~StartsWith(ps_lines[q + 1], Osszesitve)
\* a step of either pass leaves both lists as they were, a step of
\* compare_rows leaves the index and output of compare_invoice_rows alone,
\* and a step of compare_invoice_rows those of compare_rows
PassesKeepApart ==
    /\ order_rows' = order_rows
    /\ invoice_rows' = invoice_rows
    /\ pc = "compare_rows" /\ calls' = calls =>
           UNCHANGED <<order_index, invoice_output_rows, invoice_row_matches>>
    /\ pc = "compare_invoice_rows" /\ calls' = calls =>
           UNCHANGED <<invoice_index, order_output_rows, order_row_matches>>

\* a pass at its return, called first or second, returns what it returns
\* when called on its own
PassesSameAsAlone ==
    /\ OrderPassFinished =>
        /\ order_output_rows = compare_rows(order_rows, invoice_rows)
        /\ order_row_matches = RowMatches(order_output_rows)
    /\ InvoicePassFinished =>
        /\ invoice_output_rows = compare_invoice_rows(order_rows, invoice_rows)
        /\ invoice_row_matches = RowMatches(invoice_output_rows)

\* C12: the two passes are independent: the order-driven pass leaves
\* order_rows and invoice_rows unchanged, each pass consumes only the queues
\* it built itself, and a pass called after the other returns what it returns
\* when called alone on the same lists, in either order of the two calls.
PassesIndependent == [][PassesKeepApart]_vars /\ []PassesSameAsAlone

\* C12 witness: the invoice-driven pass has returned after the order-driven
\* pass, and each pass has popped a row from a queue of its own.
SecondPassReturnedWitness ==
    /\ pc = "done"
    /\ calls = <<"compare_rows", "compare_invoice_rows">>
    /\ Len(invoice_output_rows) - 1 = Len(invoice_rows)
    /\ \E k \in 1..Len(order_pairs) : order_pairs[k] # 0
    /\ \E k \in 1..Len(invoice_pairs) : invoice_pairs[k] # 0
    /\ \E k \in 1..Len(invoice_pairs) : invoice_pairs[k] = 0
\* C13: the order-driven pass never reports the mismatch name "kod": the
\* invoice row popped for an order row comes from the queue of the order
\* row's derived key, which is the invoice row's trimmed kod, so every
\* mismatch list is drawn from db, egyseg_ar, netto_ar, missing_invoice_row.
KodNeverReported ==
    /\ \A k \in 1..Len(order_pairs) :
        /\ Range(DetailsOf(order_output_rows, k)) \subseteq
               {"db", "egyseg_ar", "netto_ar", "missing_invoice_row"}
        /\ order_pairs[k] # 0 => InvoiceKey(order_pairs[k]) = OrderKey(k + 1)
    /\ pc = "compare_rows" =>
        \A c \in DOMAIN invoice_index : \A m \in 1..Len(invoice_index[c]) :
            InvoiceKey(invoice_index[c][m]) = c

\* C13 witness: the order-driven pass has returned after pairing an order row
\* with an invoice row whose kod cell differs from the order row's code cell
\* and from the derived key, and the paired row has mismatches.
PairedAcrossSpellingsWitness ==
    /\ OrderPassReturned
    /\ \E k \in 1..Len(order_pairs) :
        /\ order_pairs[k] # 0
        /\ invoice_rows[order_pairs[k]].kod # OrderKey(k + 1)
        /\ invoice_rows[order_pairs[k]].kod # get_column(order_rows[k + 1], CodeColumn)
        /\ DetailsOf(order_output_rows, k) # <<>>
====
